---- MODULE Spec2Model ----
(***************************************************************************)
(* The user model of lenslocked (package models): the chain                *)
(*   userService -> userValidator -> userGorm                              *)
(* over one "users" table.  Strings are sequences of characters so that    *)
(* concatenation (password + pepper) and hashing are real conversions.     *)
(***************************************************************************)
EXTENDS Integers, Sequences, FiniteSets, TLC

\* ---------------------------------------------------------------- bounds
MaxID == 2        \* ids the users_id_seq sequence may hand out / callers name
MaxMint == 2      \* remember tokens the random source hands out

Procs == {"p1", "p2"}                         \* Create calls that may overlap
Emails == {"", "e1"}                          \* caller-supplied emails
Passwords == {<<>>, <<"a">>}                  \* passwords given to Create / Update
LoginPasswords == Passwords \cup {<<"a", "x">>}  \* passwords tried: "", p, p + "x"
ExplicitTokens == {<<"k">>}                   \* tokens a caller may supply itself
Salts == {"s1"}                               \* salts bcrypt may draw

\* ------------------------------------------------------ program constants
userPwPepper == <<"P">>
hmacSecretKey == <<"K">>

\* ---------------------------------------------------------------- errors
ErrNil == "nil"
ErrNotFound == "models: resource not found"
ErrInvalidID == "models: ID provided was invalid"
ErrInvalidPassword == "models: incorrect password provided"
ErrHashTooShort == "bcrypt: hashedSecret too short to be a bcrypted password"
ErrMismatchedHashAndPassword == "bcrypt: hashedPassword is not the hash of the given password"
ErrDupPKey == "pq: duplicate key value violates unique constraint users_pkey"
ErrDupEmail == "pq: duplicate key value violates unique constraint uix_users_email"
ErrDupRemember == "pq: duplicate key value violates unique constraint uix_users_remember_hash"

\* ------------------------------------------------------------------ state
VARIABLES
    table,      \* the users table: id -> row (soft-deleted rows stay)
    seq,        \* next value of the users_id_seq sequence
    minted,     \* number of tokens rand.RememberToken has produced
    user,       \* user[p]: the User value Create call p works on (by pointer)
    pc,         \* pc[p]: "idle", or "create" between validation and the INSERT
    call,       \* call[p]: record of p's Create call (history)
    cred,       \* cred[id]: plaintext credentials given to the Create of id (history)
    gone,       \* ids whose record a Delete that returned nil removed (history)
    last        \* the call that returned last, and what it returned

vars == <<table, seq, minted, user, pc, call, cred, gone, last>>

\* The zero value of models.User (gorm.Model reduced to ID and DeletedAt; the
\* payload fields Name and Age, which nothing reads, are left out).
ZeroUser ==
    [ID |-> 0, Email |-> "", Password |-> <<>>, PasswordHash |-> <<>>,
     Remember |-> <<>>, RememberHash |-> <<>>]

\* ------------------------------------------------- hash, rand and bcrypt
\* hash.HMAC.Hash: keyed, deterministic digest of the token.
HMACHash(token) == <<"hmac">> \o hmacSecretKey \o token

\* rand.RememberToken: the n-th token of the random source.
RememberToken(n) == <<"r", ToString(n)>>

MintTokens == {RememberToken(n) : n \in 1..MaxMint}

\* bcrypt.GenerateFromPassword with the salt it drew.
GenerateFromPassword(pwBytes, salt) == <<"$2a$", salt>> \o pwBytes

\* bcrypt.CompareHashAndPassword: re-hash with the salt of the stored hash.
CompareHashAndPassword(hashed, pwBytes) ==
    IF Len(hashed) < 2 THEN ErrHashTooShort
    ELSE IF GenerateFromPassword(pwBytes, hashed[2]) = hashed THEN ErrNil
    ELSE ErrMismatchedHashAndPassword

\* ------------------------------------------------- validation functions
bcryptPassword(u, salt) ==
    IF u.Password = <<>> THEN [err |-> ErrNil, u |-> u]
    ELSE [err |-> ErrNil,
          u |-> [u EXCEPT !.PasswordHash = GenerateFromPassword(u.Password \o userPwPepper, salt),
                          !.Password = <<>>]]

hmacRememberNoGuard(u) ==
    [err |-> ErrNil, u |-> [u EXCEPT !.RememberHash = HMACHash(u.Remember)]]

hmacRememberClears(u) ==
    IF u.Remember = <<>> THEN [err |-> ErrNil, u |-> u]
    ELSE [err |-> ErrNil,
          u |-> [u EXCEPT !.RememberHash = HMACHash(u.Remember), !.Remember = <<>>]]

hmacRemember(u) ==
    IF u.Remember = <<>> THEN [err |-> ErrNil, u |-> u]
    ELSE [err |-> ErrNil, u |-> [u EXCEPT !.RememberHash = HMACHash(u.Remember)]]

setRememberNever(u, token) == [err |-> ErrNil, u |-> u]

setRememberIfUnset(u, token) ==
    IF u.Remember # <<>> THEN [err |-> ErrNil, u |-> u]
    ELSE [err |-> ErrNil, u |-> [u EXCEPT !.Remember = token]]

idGreaterOrEqual(n, u) == IF u.ID < n THEN ErrInvalidID ELSE ErrNil

idGreaterThan(n, u) == IF u.ID <= n THEN ErrInvalidID ELSE ErrNil

\* ------------------------------------------------------------ userGorm
\* What gorm writes to the users table: Password and Remember are `gorm:"-"`.
RowOf(u) ==
    [ID |-> u.ID, Email |-> u.Email, PasswordHash |-> u.PasswordHash,
     RememberHash |-> u.RememberHash, Deleted |-> FALSE]

\* What gorm scans back from a row.
UserOf(r) ==
    [ID |-> r.ID, Email |-> r.Email, Password |-> <<>>,
     PasswordHash |-> r.PasswordHash, Remember |-> <<>>, RememberHash |-> r.RememberHash]

\* gorm.Model carries DeletedAt: queries see only rows with deleted_at IS NULL.
LiveIDs(t) == {i \in DOMAIN t : ~t[i].Deleted}

MinOf(S) == CHOOSE x \in S : \A y \in S : x <= y

\* first: db.First orders by primary key; gorm.ErrRecordNotFound -> ErrNotFound.
first(t, ids) ==
    IF ids = {} THEN [err |-> ErrNotFound, u |-> ZeroUser]
    ELSE [err |-> ErrNil, u |-> UserOf(t[MinOf(ids)])]

ugByIDUnscoped(t, id) ==
    LET r == first(t, {i \in DOMAIN t : i = id})
    IN  IF r.err # ErrNil THEN [err |-> r.err, isNil |-> TRUE, u |-> ZeroUser]
        ELSE [err |-> ErrNil, isNil |-> FALSE, u |-> r.u]

ugByID(t, id) ==
    LET r == first(t, {i \in LiveIDs(t) : i = id})
    IN  IF r.err # ErrNil THEN [err |-> r.err, isNil |-> TRUE, u |-> ZeroUser]
        ELSE [err |-> ErrNil, isNil |-> FALSE, u |-> r.u]

\* ByEmail returns &user even when first fails.
ugByEmail(t, email) ==
    LET r == first(t, {i \in LiveIDs(t) : t[i].Email = email})
    IN  [err |-> r.err, isNil |-> FALSE, u |-> r.u]

ugByRemember(t, rememberHash) ==
    LET r == first(t, {i \in LiveIDs(t) : t[i].RememberHash = rememberHash})
    IN  IF r.err # ErrNil THEN [err |-> r.err, isNil |-> TRUE, u |-> ZeroUser]
        ELSE [err |-> ErrNil, isNil |-> FALSE, u |-> r.u]

\* The unique indexes of the table (`unique_index` on Email and RememberHash;
\* they cover soft-deleted rows too).  others: the rows the new row is checked
\* against.  The primary key is checked first; which of the two unique indexes
\* reports is left open.
UniqueErrsNoEmail(t, row, others) ==
    LET dup == {ErrDupRemember : i \in {j \in others : t[j].RememberHash = row.RememberHash}}
    IN  IF dup = {} THEN {ErrNil} ELSE dup

UniqueErrs(t, row, others) ==
    LET dup == {ErrDupEmail : i \in {j \in others : t[j].Email = row.Email}}
               \cup {ErrDupRemember : i \in {j \in others : t[j].RememberHash = row.RememberHash}}
    IN  IF dup = {} THEN {ErrNil} ELSE dup

\* INSERT of u: the id comes from the sequence when u.ID is 0.
InsertID(s, u) == IF u.ID = 0 THEN s ELSE u.ID

InsertErrs(t, s, u) ==
    IF InsertID(s, u) \in DOMAIN t THEN {ErrDupPKey}
    ELSE UniqueErrs(t, RowOf(u), DOMAIN t)

\* db.Create(user): err is the outcome the database reports (one of InsertErrs).
\* nextval is not rolled back when the INSERT fails.
ugCreate(t, s, u, err) ==
    LET id == InsertID(s, u)
        s2 == IF u.ID = 0 THEN s + 1 ELSE s
    IN  IF err # ErrNil THEN [err |-> err, t |-> t, seq |-> s2, u |-> u]
        ELSE [err |-> ErrNil,
              t |-> (id :> RowOf([u EXCEPT !.ID = id])) @@ t,
              seq |-> s2,
              u |-> [u EXCEPT !.ID = id]]

\* db.Save(user): INSERT when the primary key is zero; else UPDATE of all
\* columns WHERE deleted_at IS NULL AND id = ?, and when that touches no row,
\* FirstOrCreate, which finds nothing and INSERTs.
SaveInserts(t, u) == u.ID = 0 \/ u.ID \notin LiveIDs(t)

SaveErrs(t, s, u) ==
    IF SaveInserts(t, u) THEN InsertErrs(t, s, u)
    ELSE UniqueErrs(t, RowOf(u), DOMAIN t \ {u.ID})

ugUpdate(t, s, u, err) ==
    IF SaveInserts(t, u) THEN ugCreate(t, s, u, err)
    ELSE IF err # ErrNil THEN [err |-> err, t |-> t, seq |-> s, u |-> u]
    ELSE [err |-> ErrNil, t |-> [t EXCEPT ![u.ID] = RowOf(u)], seq |-> s, u |-> u]

\* db.Delete(&User{ID: id}): soft delete; with a zero primary key gorm adds no
\* id condition and the statement covers every row.
ugDelete(t, id) ==
    [err |-> ErrNil,
     t |-> [i \in DOMAIN t |->
              IF ~t[i].Deleted /\ (id = 0 \/ i = id)
              THEN [t[i] EXCEPT !.Deleted = TRUE] ELSE t[i]]]

\* ------------------------------------------------------- userValidator
\* runUserValFns over the functions of Create / Update: stop at the first error.
CreateValFns(u, salt, token) ==
    LET a == bcryptPassword(u, salt)
    IN  IF a.err # ErrNil THEN a
        ELSE LET b == setRememberIfUnset(a.u, token)
             IN  IF b.err # ErrNil THEN b ELSE hmacRemember(b.u)

UpdateValFns(u, salt) ==
    LET a == bcryptPassword(u, salt)
    IN  IF a.err # ErrNil THEN a ELSE hmacRemember(a.u)

uvByRememberRaw(t, token) == ugByRemember(t, token)

uvByRemember(t, token) ==
    LET r == hmacRemember([ZeroUser EXCEPT !.Remember = token])
    IN  IF r.err # ErrNil THEN [err |-> r.err, isNil |-> TRUE, u |-> ZeroUser]
        ELSE ugByRemember(t, r.u.RememberHash)

\* layer: "uv" when the validator returned, "ug" when the call reached userGorm.
uvDelete(t, id) ==
    LET e == idGreaterThan(0, [ZeroUser EXCEPT !.ID = id])
    IN  IF e # ErrNil THEN [err |-> e, t |-> t, layer |-> "uv"]
        ELSE [err |-> ugDelete(t, id).err, t |-> ugDelete(t, id).t, layer |-> "ug"]

\* --------------------------------------------------------- userService
Authenticate(t, email, password) ==
    LET f == ugByEmail(t, email)
    IN  IF f.err # ErrNil THEN [err |-> f.err, isNil |-> TRUE, u |-> ZeroUser]
        ELSE LET e == CompareHashAndPassword(f.u.PasswordHash, password \o userPwPepper)
             IN  IF e = ErrNil THEN [err |-> ErrNil, isNil |-> FALSE, u |-> f.u]
                 ELSE IF e = ErrMismatchedHashAndPassword
                      THEN [err |-> ErrInvalidPassword, isNil |-> TRUE, u |-> ZeroUser]
                 ELSE [err |-> e, isNil |-> TRUE, u |-> ZeroUser]

\* ------------------------------------------------------------- history
NoCall ==
    [st |-> "none", email |-> "", explicit |-> FALSE, absent |-> FALSE,
     stale |-> FALSE, err |-> ErrNil]

\* What a returned call leaves in last.  id, email, pw, tok, rh: the ID, Email,
\* Password, Remember and RememberHash the caller passed; err, isNil, u: the
\* error and the *User returned (for Create, the caller's record as the call
\* left it); layer: "uv" when the validator returned, "ug" when the call
\* reached userGorm.
Returned(op, id, email, pw, tok, rh, err, isNil, u, layer) ==
    [op |-> op, id |-> id, email |-> email, pw |-> pw, tok |-> tok,
     rh |-> rh, err |-> err, isNil |-> isNil, u |-> u, layer |-> layer]

\* Another write reached the table: finished Create records are dropped and
\* the ones in flight are marked as overlapped by it.
Disturbed(c) ==
    [q \in Procs |->
        IF c[q].st = "pending" THEN [c[q] EXCEPT !.stale = TRUE] ELSE NoCall]

\* The ids whose row differs between two tables.
Touched(t1, t2) ==
    {i \in DOMAIN t2 : i \notin DOMAIN t1 \/ t1[i] # t2[i]}

Forget(c, ids) == [i \in (DOMAIN c) \ ids |-> c[i]]

\* ----------------------------------------------------------------- Init
Init ==
    /\ table = << >>
    /\ seq = 1
    /\ minted = 0
    /\ user = [p \in Procs |-> ZeroUser]
    /\ pc = [p \in Procs |-> "idle"]
    /\ call = [p \in Procs |-> NoCall]
    /\ cred = << >>
    /\ gone = {}
    /\ last = Returned("none", 0, "", <<>>, <<>>, <<>>, ErrNil, TRUE, ZeroUser, "uv")

\* -------------------------------------------------------------- actions
\* The record a caller of Create builds.
NewUser(email, pw, tok) ==
    [ZeroUser EXCEPT !.Email = email, !.Password = pw, !.Remember = tok]

\* userValidator.Create and userGorm.Create, as one step.
Create ==
    /\ seq <= MaxID
    /\ \E email \in Emails, pw \in Passwords,
          tok \in {<<>>} \cup ExplicitTokens, salt \in Salts :
        LET v == CreateValFns(NewUser(email, pw, tok), salt, RememberToken(minted + 1))
        IN  /\ tok = <<>> => minted < MaxMint
            /\ minted' = IF tok = <<>> THEN minted + 1 ELSE minted
            /\ IF v.err # ErrNil
               THEN /\ last' = Returned("Create", 0, email, pw, tok, <<>>, v.err,
                                        FALSE, v.u, "uv")
                    /\ UNCHANGED <<table, seq, cred>>
               ELSE \E err \in InsertErrs(table, seq, v.u) :
                      LET r == ugCreate(table, seq, v.u, err)
                      IN  /\ table' = r.t
                          /\ seq' = r.seq
                          /\ cred' = IF r.err = ErrNil
                                     THEN (r.u.ID :> [email |-> email, pw |-> pw,
                                                      tok |-> v.u.Remember,
                                                      explicit |-> tok # <<>>]) @@ cred
                                     ELSE cred
                          /\ last' = Returned("Create", 0, email, pw, tok, <<>>, r.err,
                                              FALSE, r.u, "ug")
    /\ UNCHANGED <<user, pc, call, gone>>

\* Create in its two steps, for calls that overlap.  First userValidator.Create
\* up to the call of uv.UserDB.Create: the validation functions run on the
\* caller's record.
CreateBegin(p) ==
    /\ pc[p] = "idle"
    /\ \E email \in Emails, pw \in Passwords,
          tok \in {<<>>} \cup ExplicitTokens, salt \in Salts :
        LET v == CreateValFns(NewUser(email, pw, tok), salt, RememberToken(minted + 1))
            c0 == IF call[p].st = "done" THEN Disturbed(call) ELSE call
        IN  /\ tok = <<>> => minted < MaxMint
            /\ minted' = IF tok = <<>> THEN minted + 1 ELSE minted
            /\ IF v.err # ErrNil
               THEN /\ pc' = pc
                    /\ user' = user
                    /\ call' = call
                    /\ last' = Returned("Create", 0, email, pw, tok, <<>>, v.err,
                                        FALSE, v.u, "uv")
               ELSE /\ pc' = [pc EXCEPT ![p] = "create"]
                    /\ user' = [user EXCEPT ![p] = v.u]
                    /\ call' = [c0 EXCEPT ![p] =
                          [st |-> "pending", email |-> email, explicit |-> tok # <<>>,
                           absent |-> \A i \in DOMAIN table : table[i].Email # email,
                           stale |-> FALSE, err |-> ErrNil]]
                    /\ last' = last
    /\ UNCHANGED <<table, seq, cred, gone>>

\* Then userGorm.Create: the INSERT, one atomic statement; Create returns.
CreateStore(p) ==
    /\ pc[p] = "create"
    /\ seq <= MaxID
    /\ \E err \in InsertErrs(table, seq, user[p]) :
        LET r == ugCreate(table, seq, user[p], err)
        IN  /\ table' = r.t
            /\ seq' = r.seq
            /\ user' = [user EXCEPT ![p] = ZeroUser]
            /\ call' = [call EXCEPT ![p].st = "done", ![p].err = r.err]
            /\ last' = Returned("Create", 0, call[p].email, <<>>, <<>>, <<>>, r.err,
                                FALSE, r.u, "ug")
    /\ pc' = [pc EXCEPT ![p] = "idle"]
    /\ UNCHANGED <<minted, cred, gone>>

\* The records a caller may pass to Update: the one the last call left it
\* with (the record it passed to Create, or the one a lookup returned), or
\* one built afresh around an id.
Bases ==
    (IF ~last.isNil THEN {last.u} ELSE {})
    \cup {[ZeroUser EXCEPT !.ID = i] : i \in 0..MaxID}

\* userValidator.Update and userGorm.Update, on a base record with the fields
\* the caller changes: Email (or "keep"), a new Password and a new Remember
\* token (or none).
UpdateWith(emails, pws, toks) ==
    /\ \E base \in Bases, email \in emails, pw \in pws, tok \in toks, salt \in Salts :
        LET u0 == [base EXCEPT !.Email = IF email = "keep" THEN @ ELSE email,
                               !.Password = pw,
                               !.Remember = IF tok = <<>> THEN @ ELSE tok]
            v == UpdateValFns(u0, salt)
        IN  IF v.err # ErrNil
            THEN /\ last' = Returned("Update", u0.ID, "", <<>>, u0.Remember,
                                     u0.RememberHash, v.err, TRUE, ZeroUser, "uv")
                 /\ UNCHANGED <<table, seq, call, cred>>
            ELSE /\ (v.u.ID = 0 => seq <= MaxID)
                 /\ \E err \in SaveErrs(table, seq, v.u) :
                      LET r == ugUpdate(table, seq, v.u, err)
                      IN  /\ table' = r.t
                          /\ seq' = r.seq
                          /\ call' = IF r.t # table THEN Disturbed(call) ELSE call
                          /\ cred' = Forget(cred, Touched(table, r.t))
                          /\ last' = Returned("Update", u0.ID, "", <<>>,
                                              u0.Remember, u0.RememberHash, r.err,
                                              TRUE, ZeroUser, "ug")
    /\ UNCHANGED <<minted, user, pc, gone>>

Update == UpdateWith(Emails \cup {"keep"}, Passwords, {<<>>} \cup ExplicitTokens)

\* userValidator.Delete and userGorm.Delete.
Delete ==
    /\ \E id \in 0..MaxID :
        LET r == uvDelete(table, id)
        IN  /\ table' = r.t
            /\ call' = IF r.t # table THEN Disturbed(call) ELSE call
            /\ cred' = Forget(cred, Touched(table, r.t))
            /\ gone' = IF r.err = ErrNil /\ id \in LiveIDs(table)
                       THEN gone \cup {id} ELSE gone
            /\ last' = Returned("Delete", id, "", <<>>, <<>>, <<>>, r.err,
                                TRUE, ZeroUser, r.layer)
    /\ UNCHANGED <<seq, minted, user, pc>>

\* A lookup returns a record of its own.
Looked(op, id, email, pw, tok, r) ==
    /\ last' = Returned(op, id, email, pw, tok, <<>>, r.err, r.isNil, r.u, "ug")
    /\ UNCHANGED <<table, seq, minted, user, pc, call, cred, gone>>

ByID ==
    \E id \in 0..MaxID : Looked("ByID", id, "", <<>>, <<>>, ugByID(table, id))

ByRemember ==
    \E tok \in {<<>>} \cup ExplicitTokens \cup MintTokens :
        Looked("ByRemember", 0, "", <<>>, tok, uvByRemember(table, tok))

DoAuthenticate ==
    \E email \in Emails, pw \in LoginPasswords :
        Looked("Authenticate", 0, email, pw, <<>>, Authenticate(table, email, pw))

\* Calls one after the other.
Next ==
    \/ Create
    \/ Update
    \/ Delete
    \/ ByID
    \/ ByRemember
    \/ DoAuthenticate

Spec == Init /\ [][Next]_vars

\* Create calls that overlap each other and Delete.
NextConc ==
    \/ \E p \in Procs : CreateBegin(p)
    \/ \E p \in Procs : CreateStore(p)
    \/ Delete

SpecConc == Init /\ [][NextConc]_vars

\* --------------------------------------------------------------- claims
Tokens == ExplicitTokens \cup MintTokens

\* The id ByRemember(token) resolves to, 0 when it returns an error.
Resolves(t, token) ==
    IF uvByRemember(t, token).err = ErrNil THEN uvByRemember(t, token).u.ID ELSE 0

\* last is an Update of a record that carried no plaintext Remember token, for
\* an id that was live in table t.
UpdateNoToken(t, l) == l.op = "Update" /\ l.tok = <<>> /\ l.id \in LiveIDs(t)

\* The row of id keeps its rememberHash from t1 to t2, and every token that
\* resolved to id still does.
KeepsRemember(t1, t2, id) ==
    /\ id \in LiveIDs(t2)
    /\ t2[id].RememberHash = t1[id].RememberHash
    /\ \A tok \in Tokens : Resolves(t1, tok) = id => Resolves(t2, tok) = id

\* C1: after a successful Create of a user with email e and password p (the
\* empty password included), Authenticate(e, p) returns that user with a nil
\* error and an empty plaintext Password.
C1_PasswordRoundTrip ==
    \A id \in DOMAIN cred :
        (last.op = "Authenticate" /\ last.email = cred[id].email /\ last.pw = cred[id].pw)
            => (last.err = ErrNil /\ ~last.isNil /\ last.u.ID = id
                /\ last.u.Password = <<>>)

\* C2: for every record in the store, Authenticate with its email and a
\* password that does not match the stored passwordHash returns a nil user
\* and exactly ErrInvalidPassword.
C2_WrongPassword ==
    \A id \in LiveIDs(table) :
        (/\ last.op = "Authenticate"
         /\ last.email = table[id].Email
         /\ CompareHashAndPassword(table[id].PasswordHash, last.pw \o userPwPepper) # ErrNil)
            => (last.isNil /\ last.err = ErrInvalidPassword)

\* C3: after a successful Create the persisted record has a non-empty
\* passwordHash and a non-empty rememberHash, whatever the caller supplied.
C3_HashesAfterCreate ==
    (last.op = "Create" /\ last.err = ErrNil)
        => (/\ last.u.ID \in LiveIDs(table)
            /\ table[last.u.ID].PasswordHash # <<>>
            /\ table[last.u.ID].RememberHash # <<>>)

RacedCreates(p, q) ==
    /\ p # q
    /\ call[p].st = "done" /\ call[q].st = "done"
    /\ call[p].email = call[q].email
    /\ ~call[p].stale /\ ~call[q].stale
    /\ call[p].absent \/ call[q].absent
    /\ {call[p].err, call[q].err} \subseteq {ErrNil, ErrDupEmail}

\* C5: of two Create calls for the same email, run one after the other or
\* overlapping, exactly one succeeds and the other returns an error; the store
\* never holds two records with the same email.
C5_UniqueEmail ==
    /\ \A i, j \in DOMAIN table : i # j => table[i].Email # table[j].Email
    /\ \A p, q \in Procs :
          RacedCreates(p, q) => {call[p].err, call[q].err} = {ErrNil, ErrDupEmail}

\* C5 witness: two Create calls for one email overlapped (both began while no
\* record held it); one succeeded, the other was refused.
C5_Witness ==
    \E p, q \in Procs :
        /\ RacedCreates(p, q)
        /\ call[p].absent /\ call[q].absent
        /\ call[p].err = ErrNil /\ call[q].err = ErrDupEmail

\* C6 as stated: Update of an existing user with a record that carries no
\* plaintext Remember token leaves the stored rememberHash unchanged, and the
\* tokens that resolved to the user still do, for every record the caller may
\* pass (one built afresh around the id included).
C6_UpdateKeepsRememberHash ==
    [][UpdateNoToken(table, last') => KeepsRemember(table, table', last'.id)]_vars

\* C6 amended: the same, for a record whose RememberHash field carries the
\* stored rememberHash (the record Create or a lookup left with the caller).
C6_UpdateKeepsCarriedHash ==
    [][(UpdateNoToken(table, last') /\ last'.rh = table[last'.id].RememberHash)
          => KeepsRemember(table, table', last'.id)]_vars

\* C6 witness: an Update without a plaintext token succeeded on a live record
\* whose rememberHash the caller's record carried.
C6_Witness ==
    /\ last.op = "Update" /\ last.tok = <<>> /\ last.err = ErrNil
    /\ last.id \in LiveIDs(table)
    /\ last.rh # <<>>
    /\ table[last.id].RememberHash = last.rh
    /\ \E tok \in Tokens : Resolves(table, tok) = last.id

\* C7: Delete(0) returns ErrInvalidID, userGorm.Delete is not called and the
\* stored records are unchanged.
C7_DeleteZero ==
    [][(last'.op = "Delete" /\ last'.id = 0)
          => (last'.err = ErrInvalidID /\ last'.layer = "uv" /\ table' = table)]_vars

\* C7 witness: Delete(0) was refused while the table held live records.
C7_Witness ==
    /\ last.op = "Delete" /\ last.id = 0 /\ last.err = ErrInvalidID
    /\ LiveIDs(table) # {}

\* C8: once Delete of a valid id of an existing record has returned nil, ByID
\* on that id returns ErrNotFound (no later operation of the code stores a
\* record under that id again).
C8_DeletedStaysGone ==
    /\ \A id \in gone : ugByID(table, id).err = ErrNotFound
    /\ (last.op = "ByID" /\ last.id \in gone)
          => (last.err = ErrNotFound /\ last.isNil)

\* C8 witness: ByID on a deleted id returned ErrNotFound while other records live.
C8_Witness ==
    /\ last.op = "ByID" /\ last.id \in gone /\ last.err = ErrNotFound
    /\ LiveIDs(table) # {}

\* C9: Update with a user whose id is not in the store fails with ErrNotFound
\* and leaves the store unchanged; it never inserts a record.
C9_UpdateAbsent ==
    [][(last'.op = "Update" /\ last'.id \notin DOMAIN table)
          => (last'.err = ErrNotFound /\ table' = table)]_vars

\* C10 as stated: when Create returns successfully the record's plaintext
\* Remember field is empty and only RememberHash holds the digest.
C10_CreateClearsRemember ==
    (last.op = "Create" /\ last.err = ErrNil)
        => (last.u.Remember = <<>> /\ last.u.RememberHash # <<>>)

\* C10 amended: when Create returns successfully the record still holds the
\* plaintext Remember token, RememberHash holds its digest, and the stored
\* row holds that digest.
C10_CreateKeepsRemember ==
    (last.op = "Create" /\ last.err = ErrNil)
        => (/\ last.u.Remember # <<>>
            /\ last.u.RememberHash = HMACHash(last.u.Remember)
            /\ table[last.u.ID].RememberHash = HMACHash(last.u.Remember))

\* C10 witness: a Create that minted its token returned successfully.
C10_Witness ==
    /\ last.op = "Create" /\ last.err = ErrNil /\ last.tok = <<>>
    /\ last.u.ID \in LiveIDs(table)
    /\ last.u.RememberHash = table[last.u.ID].RememberHash

\* C11: after any sequence of Create, Update and Delete calls made through the
\* validation layer, ByRemember with the empty token never returns a user: it
\* returns a nil user and ErrNotFound (no record is reachable through a lookup
\* whose token was not hashed).
C11_EmptyTokenNotFound ==
    /\ uvByRemember(table, <<>>).err = ErrNotFound
    /\ (last.op = "ByRemember" /\ last.tok = <<>>)
          => (last.err = ErrNotFound /\ last.isNil)

====
